---- MODULE Spec2Model ----
(***************************************************************************)
(* Model of app.py (CSL-Metrix): a Streamlit page that sends a text to a   *)
(* generative-model provider, sanitizes and parses the JSON reply and      *)
(* renders it, plus a sidebar action listing the provider's models.        *)
(*                                                                         *)
(* Texts are sequences of symbols.  A symbol is one character, written by  *)
(* name where TLA+ strings cannot hold it: BT is the backtick, SP a space, *)
(* LF a line feed, DQ the double quote.  A symbol starting with an opening *)
(* brace and ending with a closing brace stands for a whole JSON object    *)
(* literal that holds no backtick (see DocTable).                          *)
(*                                                                         *)
(* The page chrome (title, captions, dividers of the sidebar) and the      *)
(* transient st.spinner are not part of the rendered view.                 *)
(***************************************************************************)
EXTENDS Naturals, Sequences, FiniteSets, TLC

VARIABLES
    api_key,            \* the sidebar password field (app.py:47)
    text_input,         \* the text area (app.py:57)
    pc,                 \* position of the current script run
    view,               \* what the current run has rendered, in order
    calls,              \* provider calls issued by the current run, in order
    response,           \* the object generate_content returned (app.py:75)
    raw_text,           \* app.py:79
    data,               \* app.py:82
    listing,            \* what genai.list_models() yields (app.py:121)
    lm_i,               \* how many listing entries the loop has consumed
    available_models,   \* app.py:120
    clicked,            \* which st.button returned True in the current run
    exc,                \* the exception bound by `except Exception as e`
    san_x,              \* sanitizer study: the input string
    san_y,              \* sanitizer study: sanitize(input)
    san_z,              \* sanitizer study: the second result
    san_pc              \* sanitizer study: position

vars == <<api_key, text_input, pc, view, calls, response, raw_text, data, listing, lm_i,
          available_models, clicked, exc, san_x, san_y, san_z, san_pc>>

shellVars == <<api_key, text_input, pc, view, calls, response, raw_text, data, listing, lm_i,
               available_models, clicked, exc>>

sanVars == <<san_x, san_y, san_z, san_pc>>

-----------------------------------------------------------------------------
(* Bounds                                                                  *)

MaxKeyLen == 2
MaxTextLen == 1
MaxModels == 2
MaxChunks == 4

-----------------------------------------------------------------------------
(* Characters and strings                                                  *)

BT == "BT"
SP == "SP"
LF == "LF"
DQ == "DQ"

\* what str.strip() with no argument removes
Whitespace == {SP, LF}

\* the two literals of app.py:79
FenceOpen == <<BT, BT, BT, "j", "s", "o", "n">>
FenceClose == <<BT, BT, BT>>

\* all sequences over S of length at most n
RECURSIVE SeqsUpTo(_, _)
SeqsUpTo(S, n) ==
    IF n = 0 THEN {<<>>}
    ELSE LET shorter == SeqsUpTo(S, n - 1)
         IN shorter \cup {Append(s, c) : s \in {t \in shorter : Len(t) = n - 1}, c \in S}

\* Python truthiness of a str: `not s` is true exactly for the empty string
Truthy(s) == Len(s) > 0

\* str.isspace-like: nothing but whitespace (the empty string included)
Blank(s) == \A i \in 1..Len(s) : s[i] \in Whitespace

\* whether pat occurs in s at position i
MatchAt(s, pat, i) ==
    /\ i + Len(pat) - 1 <= Len(s)
    /\ SubSeq(s, i, i + Len(pat) - 1) = pat

Contains(s, pat) == \E i \in 1..Len(s) : MatchAt(s, pat, i)

\* str.replace(pat, ""): one left-to-right pass over non-overlapping matches
RECURSIVE ReplaceFrom(_, _, _)
ReplaceFrom(s, pat, i) ==
    IF i > Len(s) THEN <<>>
    ELSE IF MatchAt(s, pat, i) THEN ReplaceFrom(s, pat, i + Len(pat))
    ELSE <<s[i]>> \o ReplaceFrom(s, pat, i + 1)

RemoveAll(s, pat) == ReplaceFrom(s, pat, 1)

RECURSIVE LStrip(_)
LStrip(s) ==
    IF s # <<>> /\ Head(s) \in Whitespace THEN LStrip(Tail(s)) ELSE s

RECURSIVE RStrip(_)
RStrip(s) ==
    IF s # <<>> /\ s[Len(s)] \in Whitespace THEN RStrip(SubSeq(s, 1, Len(s) - 1)) ELSE s

\* str.strip()
Strip(s) == RStrip(LStrip(s))

\* the one element of a singleton set: naming the element of {e} fixes the
\* value of e before it is used
The(S) == CHOOSE x \in S : TRUE

\* variant: trimming before the markers are removed instead of after
sanitize_StripFirst(s) ==
    The({RemoveAll(b, FenceClose) : b \in {RemoveAll(a, FenceOpen) : a \in {Strip(s)}}})

\* app.py:79  response.text.replace("```json", "").replace("```", "").strip()
\* one call after the other, each on the result of the one before
sanitize(s) ==
    The({Strip(b) : b \in {RemoveAll(a, FenceClose) : a \in {RemoveAll(s, FenceOpen)}}})

-----------------------------------------------------------------------------
(* JSON values and json.loads                                              *)

Obj(f) == [t |-> "obj", v |-> f]
Arr(a) == [t |-> "arr", v |-> a]
Str(s) == [t |-> "str", v |-> s]
Num(n) == [t |-> "num", v |-> n]
Null == [t |-> "null", v |-> 0]

\* the reply the prompt template asks for (app.py:33-41), with sample values
FullDoc ==
    [summary |-> Str(<<"x">>),
     basic_stats |-> Obj([words |-> Num(12), sentences |-> Num(2), avg_sent_len |-> Num(6)]),
     scores |-> Obj([narrativity |-> Num(70), syntactic_simplicity |-> Num(60),
                     referential_cohesion |-> Num(1), semantic_similarity |-> Num(1)]),
     readability |-> Obj([hsk_level |-> Str(<<"x">>), score |-> Num(55)]),
     details |-> Str(<<"x", "x">>)]

\* f without key k
Without(f, k) == [x \in (DOMAIN f) \ {k} |-> f[x]]

\* f with key k set to val
With(f, k, val) == [x \in (DOMAIN f) \cup {k} |-> IF x = k THEN val ELSE f[x]]

\* The object literals a reply may hold as one symbol, and the value each
\* one denotes.  Every literal but the empty object holds double quotes.
DocTable ==
    [d \in {"{full}", "{}", "{no_readability}", "{no_hsk_level}", "{no_scores}",
            "{no_narrativity}", "{no_semantic_similarity}", "{no_basic_stats}",
            "{no_words}", "{no_summary}", "{no_details}", "{basic_stats_is_list}",
            "{hsk_level_is_object}", "{scores_is_null}"} |->
        CASE d = "{full}" -> Obj(FullDoc)
          [] d = "{}" -> Obj(<<>>)
          [] d = "{no_readability}" -> Obj(Without(FullDoc, "readability"))
          [] d = "{no_hsk_level}" -> Obj(With(FullDoc, "readability", Obj([score |-> Num(55)])))
          [] d = "{no_scores}" -> Obj(Without(FullDoc, "scores"))
          [] d = "{no_narrativity}" ->
                Obj(With(FullDoc, "scores", Obj(Without(FullDoc.scores.v, "narrativity"))))
          [] d = "{no_semantic_similarity}" ->
                Obj(With(FullDoc, "scores", Obj(Without(FullDoc.scores.v, "semantic_similarity"))))
          [] d = "{no_basic_stats}" -> Obj(Without(FullDoc, "basic_stats"))
          [] d = "{no_words}" ->
                Obj(With(FullDoc, "basic_stats", Obj(Without(FullDoc.basic_stats.v, "words"))))
          [] d = "{no_summary}" -> Obj(Without(FullDoc, "summary"))
          [] d = "{no_details}" -> Obj(Without(FullDoc, "details"))
          [] d = "{basic_stats_is_list}" -> Obj(With(FullDoc, "basic_stats", Arr(<<>>)))
          [] d = "{hsk_level_is_object}" ->
                Obj(With(FullDoc, "readability", Obj([hsk_level |-> Obj(<<>>), score |-> Num(55)])))
          [] d = "{scores_is_null}" -> Obj(With(FullDoc, "scores", Null))]

DocSyms == DOMAIN DocTable

\* HeadSym stands for the text of FullDoc's literal up to and including the
\* colon after "details"; a value and a closing brace complete the object.
HeadSym == "{full_but_details:"

\* characters of the model that may stand unescaped inside a JSON string
\* (no double quote, no control character, no literal holding a quote)
StringChars == {BT, SP, "j", "s", "o", "n", "u", "l", "x", "7", "[", "]", "}", "{}"}

NullLit == <<"n", "u", "l", "l">>

Parsed(val) == [ok |-> TRUE, val |-> val]
JSONDecodeError == [ok |-> FALSE, val |-> Null]

\* json.loads(t) over the model's alphabet: surrounding whitespace is
\* skipped; a literal is null, a run of digits, a string, an array of at
\* most one element (the alphabet has no comma), or an object.
RECURSIVE json_loads(_)
json_loads(t) ==
    LET u == Strip(t)
        n == Len(u)
        inner == SubSeq(u, 2, n - 1)
    IN  IF n = 0 THEN JSONDecodeError
        ELSE IF n = 1 /\ u[1] \in DocSyms THEN Parsed(DocTable[u[1]])
        ELSE IF u = NullLit THEN Parsed(Null)
        ELSE IF \A i \in 1..n : u[i] = "7" THEN Parsed(Num(n))
        ELSE IF n >= 2 /\ u[1] = DQ /\ u[n] = DQ /\ \A i \in 2..(n - 1) : u[i] \in StringChars
            THEN Parsed(Str(inner))
        ELSE IF n >= 2 /\ u[1] = "[" /\ u[n] = "]"
            THEN IF Blank(inner) THEN Parsed(Arr(<<>>))
                 ELSE LET r == json_loads(inner)
                      IN IF r.ok THEN Parsed(Arr(<<r.val>>)) ELSE JSONDecodeError
        ELSE IF n >= 3 /\ u[1] = HeadSym /\ u[n] = "}"
            THEN LET r == json_loads(inner)
                 IN IF r.ok THEN Parsed(Obj(With(FullDoc, "details", r.val)))
                    ELSE JSONDecodeError
        ELSE JSONDecodeError

\* equality of two json.loads outcomes (values of different JSON types are
\* compared by type first)
RECURSIVE SameValue(_, _)
SameValue(a, b) ==
    /\ a.t = b.t
    /\ CASE a.t = "obj" ->
              /\ DOMAIN a.v = DOMAIN b.v
              /\ \A k \in DOMAIN a.v : SameValue(a.v[k], b.v[k])
         [] a.t = "arr" ->
              /\ Len(a.v) = Len(b.v)
              /\ \A i \in 1..Len(a.v) : SameValue(a.v[i], b.v[i])
         [] OTHER -> a.v = b.v

SameParse(p, q) == p.ok = q.ok /\ (p.ok => SameValue(p.val, q.val))

-----------------------------------------------------------------------------
(* Python evaluation with exceptions                                       *)

NoExc == [type |-> "none", text |-> "none"]
Exc(ty, tx) == [type |-> ty, text |-> tx]

Ok(val) == [exc |-> NoExc, val |-> val]
Raise(e) == [exc |-> e, val |-> Null]

\* val[key] for a str key
Subscript(val, key) ==
    IF val.t = "obj"
    THEN IF key \in DOMAIN val.v THEN Ok(val.v[key]) ELSE Raise(Exc("KeyError", key))
    ELSE Raise(Exc("TypeError", key))

\* data[k1][k2]
Subscript2(val, k1, k2) ==
    LET a == Subscript(val, k1)
    IN IF a.exc # NoExc THEN a ELSE Subscript(a.val, k2)

\* val.get(key, default): only a dict has .get
Get(val, key, default) ==
    IF val.t = "obj"
    THEN Ok(IF key \in DOMAIN val.v THEN val.v[key] ELSE default)
    ELSE Raise(Exc("AttributeError", "get"))

\* data['basic_stats'].get('words', 'N/A')   (app.py:89)
WordsOrNA(d) ==
    LET a == Subscript(d, "basic_stats")
    IN IF a.exc # NoExc THEN a ELSE Get(a.val, "words", Str(<<"N", "/", "A">>))

\* st.metric accepts int, float, str or None as value and raises otherwise
MetricAccepts(val) == val.t \in {"str", "num", "null"}

-----------------------------------------------------------------------------
(* Rendered elements                                                       *)

\* One element of the page: the Streamlit call that made it (w), its fixed
\* message or label (msg), the text it shows (text) and the JSON value it
\* shows (val).
Widget(w, msg, text, val) == [w |-> w, msg |-> msg, text |-> text, val |-> val]

\* messages of the page, by the line that shows them
MSG_NEED_KEY == "error: enter the API key first"              \* app.py:61
MSG_NEED_TEXT == "warning: enter the text to analyse"          \* app.py:63
MSG_DONE == "success: analysis complete, summary follows"      \* app.py:91
MSG_REPORT == "subheader: detailed report"                     \* app.py:95
MSG_PARSE_FAILED == "error: parse failed, raw reply follows"   \* app.py:103
MSG_CONN_ERROR == "error: connection error, cause follows"     \* app.py:107
MSG_LM_NEED_KEY == "error: enter the API key"                  \* app.py:115
MSG_LM_QUERYING == "write: querying the server"                \* app.py:119
MSG_LM_FOUND == "success: the key supports these models"       \* app.py:125
MSG_LM_HINT == "info: copy one of the names into model_name"   \* app.py:127
MSG_LM_NONE == "error: no model supports generateContent"      \* app.py:129
MSG_LM_FAILED == "error: query failed, cause follows"          \* app.py:132

Plain(w, msg) == Widget(w, msg, <<>>, Null)

\* result of one statement of a block: the element it adds, or what it raises
Shown(w) == [add |-> w, exc |-> NoExc]
Thrown(e) == [add |-> Plain("none", ""), exc |-> e]

\* colN.metric(label, <expr>): the argument is evaluated first, then shown
Metric(label, r) ==
    IF r.exc # NoExc THEN Thrown(r.exc)
    ELSE IF ~MetricAccepts(r.val) THEN Thrown(Exc("TypeError", "metric"))
    ELSE Shown(Widget("metric", label, <<>>, r.val))

\* a statement showing the value of an expression
ShowValue(w, msg, r) ==
    IF r.exc # NoExc THEN Thrown(r.exc) ELSE Shown(Widget(w, msg, <<>>, r.val))

\* Statements run in order; the first exception ends the block, and what
\* was shown before it stays shown.
RunBlock(stmts) ==
    LET raising == {i \in 1..Len(stmts) : stmts[i].exc # NoExc}
        k == IF raising = {} THEN Len(stmts) + 1
             ELSE CHOOSE i \in raising : \A j \in raising : i <= j
    IN  [view |-> [i \in 1..(k - 1) |-> stmts[i].add],
         exc |-> IF raising = {} THEN NoExc ELSE stmts[k].exc]

\* app.py:85-100, the statements after a successful json.loads
RenderStmts(d) ==
    << Shown(Plain("columns", "4")),
       Metric("HSK", Subscript2(d, "readability", "hsk_level")),
       Metric("Narrativity", Subscript2(d, "scores", "narrativity")),
       Metric("LSA", Subscript2(d, "scores", "semantic_similarity")),
       Metric("TTR", WordsOrNA(d)),
       ShowValue("success", MSG_DONE, Subscript(d, "summary")),
       Shown(Plain("divider", "")),
       Shown(Plain("subheader", MSG_REPORT)),
       ShowValue("markdown", "details", Subscript(d, "details")),
       Shown(Widget("json", "expander", <<>>, d)) >>

\* variant: the fallback showing the cleaned text instead of response.text
ParseFallback_Cleaned(original) ==
    << Plain("error", MSG_PARSE_FAILED), Widget("markdown", "", sanitize(original), Null) >>

\* app.py:102-104, the handler of json.JSONDecodeError
ParseFallback(original) ==
    << Plain("error", MSG_PARSE_FAILED), Widget("markdown", "", original, Null) >>

\* variant: a failed lookup treated like a failed parse
Render_LookupFallsBack(d, original) ==
    The({IF r.exc = NoExc THEN r ELSE [view |-> ParseFallback(original), exc |-> NoExc] :
            r \in {RunBlock(stmts) : stmts \in {RenderStmts(d)}}})

\* app.py:85-100: what the block shows for the parsed reply and what it
\* raises.  `original` is response.text.
Render(d, original) == The({RunBlock(stmts) : stmts \in {RenderStmts(d)}})

\* variant: the message without the formatted exception
ConnError_NoCause(e) == Widget("error", MSG_CONN_ERROR, <<>>, Null)

\* app.py:106-107: except Exception as e: st.error(f"...: {e}")
ConnError(e) == Widget("error", MSG_CONN_ERROR, <<e.text>>, Null)

-----------------------------------------------------------------------------
(* The provider, as the page sees it                                       *)

\* what a call into google.generativeai may raise (all subclasses of Exception)
ProviderErrors == {Exc("PermissionDenied", "API key not valid"),
                   Exc("DeadlineExceeded", "timeout")}

\* a call returns (NoExc) or raises
ProviderOutcomes == {NoExc} \cup ProviderErrors

\* exception types that `except Exception` catches
ExceptionTypes == {"KeyError", "TypeError", "AttributeError", "ValueError",
                   "PermissionDenied", "DeadlineExceeded"}

\* variant: a handler for the provider's own error classes only
IsException_ProviderOnly(e) == e.type \in {"PermissionDenied", "DeadlineExceeded"}

\* app.py:106 and app.py:131: except Exception as e
IsException(e) == e.type \in ExceptionTypes

\* decoration a reply may carry around its payload
Prefixes == {<<>>, <<SP>>, FenceOpen, FenceOpen \o <<LF>>}
Suffixes == {<<>>, FenceClose, <<LF>> \o FenceClose \o <<LF>>}

\* payloads: every object literal, the other JSON types, an object whose
\* details value holds a fenced block, and texts that are not JSON
Bodies ==
    {<<d>> : d \in DocSyms}
    \cup {NullLit, <<"[", "]">>, <<"[", "7", "]">>, <<"7">>, <<DQ, "x", DQ>>}
    \cup {<<HeadSym, DQ, "x", DQ, "}">>,
          <<HeadSym, DQ, BT, BT, BT, "x", BT, BT, BT, DQ, "}">>}
    \cup {<<>>, <<"x", SP, "x">>, <<HeadSym>>, <<DQ, "x">>, <<"{full}", "{full}">>}

Replies == {p \o b \o s : p \in Prefixes, b \in Bodies, s \in Suffixes}

\* a response object: its text, and whether reading .text works (it raises
\* ValueError for a response without a valid part, e.g. a blocked one)
Responses == [text : Replies, readable : {TRUE}] \cup [text : {<<>>}, readable : {FALSE}]

NoResponse == [text |-> <<>>, readable |-> FALSE]

\* entries of genai.list_models()
Models ==
    {[name |-> "models/gemini-pro", supported_generation_methods |-> {"generateContent", "countTokens"}],
     [name |-> "models/embedding-001", supported_generation_methods |-> {"embedContent"}],
     [name |-> "models/gemini-1.5-flash", supported_generation_methods |-> {"generateContent"}]}

Listings == SeqsUpTo(Models, MaxModels)

\* variant: equality where the code tests membership
Capable_OnlyMethod(m) == m.supported_generation_methods = {"generateContent"}

\* app.py:122
Capable(m) == "generateContent" \in m.supported_generation_methods

\* "\n".join(names)   (app.py:126)
RECURSIVE Join(_)
Join(names) ==
    IF names = <<>> THEN <<>>
    ELSE IF Len(names) = 1 THEN names
    ELSE <<Head(names), LF>> \o Join(Tail(names))

\* what the user can type
Keys == SeqsUpTo({SP, "k"}, MaxKeyLen)
Texts == SeqsUpTo({SP, "t"}, MaxTextLen)

-----------------------------------------------------------------------------
(* The page                                                                *)

SanIdle ==
    /\ san_x = <<>>
    /\ san_y = <<>>
    /\ san_z = <<>>
    /\ san_pc = "off"

ShellInit ==
    /\ api_key = <<>>
    /\ text_input = <<>>
    /\ pc = "idle"
    /\ view = <<>>
    /\ calls = <<>>
    /\ response = NoResponse
    /\ raw_text = <<>>
    /\ data = Null
    /\ listing = <<>>
    /\ lm_i = 0
    /\ available_models = <<>>
    /\ clicked = "none"
    /\ exc = NoExc

Init == ShellInit /\ SanIdle

\* a script run starts from a blank page
FreshRun ==
    /\ view' = <<>>
    /\ calls' = <<>>
    /\ response' = NoResponse
    /\ raw_text' = <<>>
    /\ data' = Null
    /\ listing' = <<>>
    /\ lm_i' = 0
    /\ available_models' = <<>>
    /\ exc' = NoExc

\* variant: no handler around the block
AfterExcept_Unhandled(e) == "crashed"

\* where an exception raised inside a try block leaves the run
AfterExcept(e) == IF IsException(e) THEN "idle" ELSE "crashed"

\* app.py:47: the user edits the key; the script reruns with no button pressed
EnterApiKey(k) ==
    /\ pc = "idle"
    /\ k # api_key
    /\ api_key' = k
    /\ FreshRun
    /\ clicked' = "none"
    /\ UNCHANGED <<text_input, pc, sanVars>>

\* app.py:57
EnterText(t) ==
    /\ pc = "idle"
    /\ t # text_input
    /\ text_input' = t
    /\ FreshRun
    /\ clicked' = "none"
    /\ UNCHANGED <<api_key, pc, sanVars>>

\* app.py:59: the analysis button is pressed
ClickAnalyze ==
    /\ pc = "idle"
    /\ pc' = "validating"
    /\ clicked' = "analyze"
    /\ FreshRun
    /\ UNCHANGED <<api_key, text_input, sanVars>>

\* app.py:60
KeyMissing(k) == ~Truthy(k)

\* variant: a test against None, which a text area never returns
TextMissing_IsNone(t) == FALSE

\* app.py:62
TextMissing(t) == ~Truthy(t)

\* app.py:60-64
Validate ==
    /\ pc = "validating"
    /\ IF KeyMissing(api_key)
       THEN view' = <<Plain("error", MSG_NEED_KEY)>> /\ pc' = "idle"
       ELSE IF TextMissing(text_input)
       THEN view' = <<Plain("warning", MSG_NEED_TEXT)>> /\ pc' = "idle"
       ELSE view' = view /\ pc' = "configure"
    /\ UNCHANGED <<raw_text, data, exc, clicked, api_key, text_input, calls, response, listing, lm_i,
                   available_models, sanVars>>

\* app.py:106-107
OnException(e) ==
    /\ view' = Append(view, ConnError(e))
    /\ exc' = e
    /\ pc' = AfterExcept(e)

\* app.py:68  genai.configure(api_key=api_key)
Configure ==
    /\ pc = "configure"
    /\ calls' = Append(calls, "configure")
    /\ \E out \in ProviderOutcomes :
          IF out = NoExc THEN view' = view /\ exc' = exc /\ pc' = "create_model"
          ELSE OnException(out)
    /\ UNCHANGED <<raw_text, data, clicked, api_key, text_input, response, listing, lm_i,
                   available_models, sanVars>>

\* app.py:69-72  genai.GenerativeModel(...)
CreateModel ==
    /\ pc = "create_model"
    /\ calls' = Append(calls, "GenerativeModel")
    /\ \E out \in ProviderOutcomes :
          IF out = NoExc THEN view' = view /\ exc' = exc /\ pc' = "generate"
          ELSE OnException(out)
    /\ UNCHANGED <<raw_text, data, clicked, api_key, text_input, response, listing, lm_i,
                   available_models, sanVars>>

\* app.py:75  model.generate_content(...)
Generate ==
    /\ pc = "generate"
    /\ calls' = Append(calls, "generate_content")
    /\ \E out \in ProviderOutcomes :
          IF out = NoExc
          THEN \E r \in Responses :
                  response' = r /\ view' = view /\ exc' = exc /\ pc' = "read_text"
          ELSE response' = response /\ OnException(out)
    /\ UNCHANGED <<raw_text, data, clicked, api_key, text_input, listing, lm_i, available_models, sanVars>>

\* app.py:79  raw_text = response.text.replace(...).replace(...).strip()
ReadText ==
    /\ pc = "read_text"
    /\ IF response.readable
       THEN /\ raw_text' = sanitize(response.text)
            /\ view' = view /\ exc' = exc /\ pc' = "parsing"
       ELSE /\ raw_text' = raw_text
            /\ OnException(Exc("ValueError", "response has no valid part"))
    /\ UNCHANGED <<clicked, api_key, text_input, calls, response, data, listing, lm_i,
                   available_models, sanVars>>

\* app.py:82 and app.py:102-104: json.loads, and the handler of its error
Parse ==
    /\ pc = "parsing"
    /\ \E p \in {json_loads(raw_text)} :
          IF p.ok THEN data' = p.val /\ view' = view /\ pc' = "rendering"
          ELSE data' = data /\ view' = ParseFallback(response.text) /\ pc' = "idle"
    /\ UNCHANGED <<exc, clicked, api_key, text_input, calls, response, raw_text, listing,
                   lm_i, available_models, sanVars>>

\* app.py:85-100 and the outer handler, app.py:106-107
RenderStep ==
    /\ pc = "rendering"
    /\ \E r \in {Render(data, response.text)} :
          IF r.exc = NoExc THEN view' = r.view /\ exc' = exc /\ pc' = "idle"
          ELSE view' = Append(r.view, ConnError(r.exc)) /\ exc' = r.exc /\ pc' = AfterExcept(r.exc)
    /\ UNCHANGED <<clicked, api_key, text_input, calls, response, raw_text, data, listing,
                   lm_i, available_models, sanVars>>

-----------------------------------------------------------------------------
(* The sidebar's list-models action                                        *)

\* app.py:113
ClickListModels ==
    /\ pc = "idle"
    /\ pc' = "lm_validating"
    /\ clicked' = "list_models"
    /\ FreshRun
    /\ UNCHANGED <<api_key, text_input, sanVars>>

\* app.py:131-132
LmOnException(e) ==
    /\ view' = Append(view, Widget("error", MSG_LM_FAILED, <<e.text>>, Null))
    /\ exc' = e
    /\ pc' = AfterExcept(e)

\* app.py:114-116
LmValidate ==
    /\ pc = "lm_validating"
    /\ IF KeyMissing(api_key)
       THEN view' = <<Plain("error", MSG_LM_NEED_KEY)>> /\ pc' = "idle"
       ELSE view' = view /\ pc' = "lm_configure"
    /\ UNCHANGED <<raw_text, data, exc, clicked, api_key, text_input, calls, response, listing, lm_i,
                   available_models, sanVars>>

\* app.py:118-120
LmConfigure ==
    /\ pc = "lm_configure"
    /\ calls' = Append(calls, "configure")
    /\ \E out \in ProviderOutcomes :
          IF out = NoExc
          THEN view' = Append(view, Plain("write", MSG_LM_QUERYING)) /\ exc' = exc /\ pc' = "lm_list"
          ELSE LmOnException(out)
    /\ UNCHANGED <<raw_text, data, clicked, api_key, text_input, response, listing, lm_i,
                   available_models, sanVars>>

\* app.py:121  genai.list_models()
LmListModels ==
    /\ pc = "lm_list"
    /\ calls' = Append(calls, "list_models")
    /\ \E out \in ProviderOutcomes :
          IF out = NoExc
          THEN \E l \in Listings :
                  listing' = l /\ view' = view /\ exc' = exc /\ pc' = "lm_loop"
          ELSE listing' = listing /\ LmOnException(out)
    /\ UNCHANGED <<raw_text, data, clicked, api_key, text_input, response, lm_i, available_models, sanVars>>

\* app.py:121-123: one turn of the loop; fetching the next entry may raise
LmLoopStep ==
    /\ pc = "lm_loop"
    /\ lm_i < Len(listing)
    /\ \E out \in ProviderOutcomes :
          IF out = NoExc
          THEN /\ lm_i' = lm_i + 1
               /\ available_models' =
                     IF Capable(listing[lm_i + 1])
                     THEN Append(available_models, listing[lm_i + 1].name)
                     ELSE available_models
               /\ view' = view /\ exc' = exc
               /\ pc' = "lm_loop"
          ELSE /\ lm_i' = lm_i
               /\ available_models' = available_models
               /\ LmOnException(out)
    /\ UNCHANGED <<raw_text, data, clicked, api_key, text_input, calls, response, listing, sanVars>>

\* the loop is exhausted
LmLoopEnd ==
    /\ pc = "lm_loop"
    /\ lm_i = Len(listing)
    /\ pc' = "lm_display"
    /\ UNCHANGED <<raw_text, data, exc, clicked, api_key, text_input, view, calls, response, listing, lm_i,
                   available_models, sanVars>>

\* app.py:124-129: what is shown for a list of names
LmReport(names) ==
    IF names # <<>>
    THEN << Plain("success", MSG_LM_FOUND),
            Widget("code", "", Join(names), Null),
            Plain("info", MSG_LM_HINT) >>
    ELSE << Plain("error", MSG_LM_NONE) >>

\* app.py:124-129
LmDisplay ==
    /\ pc = "lm_display"
    /\ view' = view \o LmReport(available_models)
    /\ pc' = "idle"
    /\ UNCHANGED <<raw_text, data, exc, clicked, api_key, text_input, calls, response, listing, lm_i,
                   available_models, sanVars>>

-----------------------------------------------------------------------------

Step ==
    \/ Validate
    \/ Configure
    \/ CreateModel
    \/ Generate
    \/ ReadText
    \/ Parse
    \/ RenderStep
    \/ LmValidate
    \/ LmConfigure
    \/ LmListModels
    \/ LmLoopStep
    \/ LmLoopEnd
    \/ LmDisplay

Next ==
    \/ \E k \in Keys : EnterApiKey(k)
    \/ \E t \in Texts : EnterText(t)
    \/ ClickAnalyze
    \/ ClickListModels
    \/ Step

Spec == Init /\ [][Next]_vars

\* The script is single-threaded and synchronous: once a button is pressed
\* the run proceeds statement by statement, and every provider call is
\* taken to return or raise.
FairSpec == Spec /\ WF_vars(Step)

-----------------------------------------------------------------------------
(* The sanitizer on its own                                                *)

\* pieces raw inputs are put together from
Chunks ==
    {<<BT>>, <<BT, BT>>, FenceClose, FenceOpen, <<"j", "s">>, <<"o", "n">>,
     <<SP>>, <<LF>>, <<"x">>, <<DQ>>}

RECURSIVE Concats(_, _)
Concats(S, n) ==
    IF n = 0 THEN {<<>>}
    ELSE LET shorter == Concats(S, n - 1)
         IN shorter \cup {s \o c : s \in shorter, c \in S}

RawInputs == Concats(Chunks, MaxChunks)

\* contents of a JSON string literal
StringContents == Concats({c \in Chunks : \A i \in 1..Len(c) : c[i] \in StringChars}, MaxChunks - 1)

\* well-formed JSON texts: strings and objects whose details is a string,
\* of any content, and the fixed payloads; with or without outer whitespace
JsonCores ==
    {<<DQ>> \o c \o <<DQ>> : c \in StringContents}
    \cup {<<HeadSym, DQ>> \o c \o <<DQ, "}">> : c \in StringContents}
    \cup {<<"{full}">>, NullLit, <<"[", "7", "]">>}

JsonInputs == JsonCores \cup {<<SP>> \o j \o <<LF>> : j \in JsonCores}

\* the reply the model is told not to send: the payload inside the fence
wrap(s, sep) == FenceOpen \o sep \o s \o sep \o FenceClose

SanInit ==
    /\ ShellInit
    /\ san_x \in RawInputs \cup JsonInputs
    /\ san_y = <<>>
    /\ san_z = <<>>
    /\ san_pc = "input"

SanApply ==
    /\ san_pc = "input"
    /\ san_y' = sanitize(san_x)
    /\ san_pc' = "once"
    /\ UNCHANGED <<san_x, san_z, shellVars>>

SanAgain ==
    /\ san_pc = "once"
    /\ san_z' = sanitize(san_y)
    /\ san_pc' = "twice"
    /\ UNCHANGED <<san_x, san_y, shellVars>>

SanWrapped ==
    /\ san_pc = "input"
    /\ json_loads(san_x).ok
    /\ \E sep \in {<<>>, <<LF>>} : san_y' = sanitize(wrap(san_x, sep))
    /\ san_z' = sanitize(san_x)
    /\ san_pc' = "wrapped"
    /\ UNCHANGED <<san_x, shellVars>>

SanNext == SanApply \/ SanAgain \/ SanWrapped

SanSpec == SanInit /\ [][SanNext]_vars

-----------------------------------------------------------------------------
(* Properties                                                              *)

Last(v) == v[Len(v)]

\* the analysis run has ended
AnalysisDone == clicked = "analyze" /\ pc = "idle"

\* the run got as far as lines 79-104
Rendered == AnalysisDone /\ response.readable

\* what json.loads made of the cleaned reply
ParsedReply == json_loads(sanitize(response.text))

NoProviderCall == calls = <<>>

ShowsOnly(w, msg) == Len(view) = 1 /\ view[1].w = w /\ view[1].msg = msg

\* C1: with an API key that is empty or only whitespace, the analysis
\* trigger makes no provider call and ends showing the API-key error.
C1_BlankKeyRejected ==
    (clicked = "analyze" /\ Blank(api_key)) =>
        /\ NoProviderCall
        /\ pc = "idle" => ShowsOnly("error", MSG_NEED_KEY)

\* C2: with a non-empty API key and the empty text, the analysis trigger
\* makes no provider call and ends showing the missing-text warning.
C2_EmptyTextRejected ==
    (clicked = "analyze" /\ api_key # <<>> /\ text_input = <<>>) =>
        /\ NoProviderCall
        /\ pc \in {"validating", "idle"}
        /\ pc = "idle" => ShowsOnly("warning", MSG_NEED_TEXT)

C2_Witness ==
    /\ AnalysisDone
    /\ api_key # <<>>
    /\ text_input = <<>>
    /\ ShowsOnly("warning", MSG_NEED_TEXT)

\* C3: a second pass of the sanitizer changes nothing, and the result of
\* one pass holds no fence marker and no leading or trailing whitespace.
C3_SanitizeIdempotent ==
    /\ san_pc \in {"once", "twice"} =>
          /\ ~Contains(san_y, FenceOpen)
          /\ ~Contains(san_y, FenceClose)
          /\ san_y # <<>> => (Head(san_y) \notin Whitespace /\ Last(san_y) \notin Whitespace)
    /\ san_pc = "twice" => san_z = san_y

C3_Witness ==
    /\ san_pc = "twice"
    /\ Contains(san_x, FenceOpen)
    /\ Head(san_x) \in Whitespace
    /\ san_y # <<>>
    /\ san_y # san_x

\* C4: for a well-formed JSON text s, sanitizing s wrapped in the fence
\* markers gives s trimmed, and so parses to what s parses to.
C4_WrapRoundTrip ==
    san_pc = "wrapped" =>
        /\ san_y = Strip(san_x)
        /\ SameParse(json_loads(san_y), json_loads(san_x))

\* C5: when a provider call of an analysis run raises, the run ends idle
\* showing the error message with the error's text and nothing else.
C5_ProviderErrorShown ==
    (clicked = "analyze" /\ exc.type \in {"PermissionDenied", "DeadlineExceeded", "ValueError"}) =>
        /\ pc = "idle"
        /\ ShowsOnly("error", MSG_CONN_ERROR)
        /\ view[1].text = <<exc.text>>

C5_Witness ==
    /\ AnalysisDone
    /\ calls = <<"configure", "GenerativeModel", "generate_content">>
    /\ exc.type = "DeadlineExceeded"
    /\ Len(view) = 1

\* C6: when the cleaned reply is not valid JSON, the run shows the
\* parse-failure notice followed by the reply exactly as received, shows
\* no result widget and raises nothing.
C6_ParseFallback ==
    (Rendered /\ ~ParsedReply.ok) =>
        /\ exc = NoExc
        /\ Len(view) = 2
        /\ view[1].w = "error" /\ view[1].msg = MSG_PARSE_FAILED
        /\ view[2].w = "markdown" /\ view[2].text = response.text

C6_Witness ==
    /\ Rendered
    /\ ~ParsedReply.ok
    /\ Contains(response.text, FenceOpen)
    /\ Last(response.text) \in Whitespace
    /\ Len(view) = 2

\* an analysis run that met one of the four error kinds
ValidationError == KeyMissing(api_key) \/ TextMissing(text_input)
ParseError == Rendered /\ ~ParsedReply.ok
SchemaError == Rendered /\ ParsedReply.ok /\ exc # NoExc
ProviderError == exc.type \in {"PermissionDenied", "DeadlineExceeded", "ValueError"}

\* C7: no exception leaves the page, and an analysis run that met a
\* validation, provider, parse or schema error ends showing a message.
C7_NoEscape ==
    /\ pc # "crashed"
    /\ (AnalysisDone /\ (ValidationError \/ ProviderError \/ ParseError \/ SchemaError)) =>
          \E i \in 1..Len(view) : view[i].w \in {"error", "warning"}

C7_Witness ==
    /\ SchemaError
    /\ ParsedReply.val.t \in {"arr", "num", "str", "null"}
    /\ exc.type = "TypeError"
    /\ Last(view).msg = MSG_CONN_ERROR

\* the names of the entries of l that can generate content, in l's order
CapableNames(l) ==
    LET keep == SelectSeq(l, LAMBDA m : "generateContent" \in m.supported_generation_methods)
    IN [i \in 1..Len(keep) |-> keep[i].name]

\* t is the names, one per line
IsLines(t, names) ==
    /\ Len(t) = 2 * Len(names) - 1
    /\ \A i \in 1..Len(names) : t[2 * i - 1] = names[i]
    /\ \A i \in 1..(Len(names) - 1) : t[2 * i] = LF

ListingDone == clicked = "list_models" /\ pc = "idle" /\ ~KeyMissing(api_key) /\ exc = NoExc

\* C8: a list-models run that raised nothing collected, and shows, exactly
\* the names of the listed models that support generateContent, in the
\* provider's order; with none, it shows a message instead.
C8_ListModels ==
    ListingDone =>
        /\ available_models = CapableNames(listing)
        /\ IF CapableNames(listing) = <<>>
           THEN Len(view) = 2 /\ view[2].w = "error" /\ view[2].msg = MSG_LM_NONE
           ELSE /\ Len(view) = 4
                /\ view[3].w = "code"
                /\ IsLines(view[3].text, CapableNames(listing))

C8_Witness ==
    /\ ListingDone
    /\ Len(listing) = 2
    /\ Len(available_models) = 1
    /\ ~Capable(listing[1])

C8_WitnessEmpty ==
    /\ ListingDone
    /\ Len(listing) > 0
    /\ available_models = <<>>

\* the states of the interaction shell that the positions belong to
ShellState(p) ==
    CASE p = "idle" -> "Idle"
      [] p \in {"validating", "lm_validating"} -> "Validating"
      [] p \in {"configure", "create_model", "generate", "read_text",
                "lm_configure", "lm_list", "lm_loop"} -> "Requesting"
      [] p \in {"parsing", "rendering", "lm_display"} -> "Rendering"
      [] OTHER -> "Crashed"

\* the order of the shell's states
Successors(st) ==
    CASE st = "Idle" -> {"Idle", "Validating"}
      [] st = "Validating" -> {"Idle", "Requesting"}
      [] st = "Requesting" -> {"Requesting", "Rendering", "Idle"}
      [] st = "Rendering" -> {"Rendering", "Idle"}
      [] OTHER -> {}

Count(seq, x) == Cardinality({i \in 1..Len(seq) : seq[i] = x})

\* C9: the shell moves Idle, Validating, Requesting, Rendering, Idle with
\* the error exits to Idle; a run that has started always comes back to
\* Idle; a run issues at most one generate_content call.
C9_BackToIdle ==
    /\ (pc # "idle") ~> (pc = "idle")
    /\ [][ShellState(pc') \in Successors(ShellState(pc))]_pc
    /\ [](Count(calls, "generate_content") <= 1)

C9_Witness ==
    /\ AnalysisDone
    /\ calls = <<"configure", "GenerativeModel", "generate_content">>
    /\ exc.type = "KeyError"

Has(d, k) == d.t = "obj" /\ k \in DOMAIN d.v
Has2(d, k1, k2) == Has(d, k1) /\ Has(d.v[k1], k2)

\* the lookups the four metric cards make all find their key
CardsKeysPresent(d) ==
    /\ Has2(d, "readability", "hsk_level")
    /\ Has2(d, "scores", "narrativity")
    /\ Has2(d, "scores", "semantic_similarity")
    /\ Has(d, "basic_stats") /\ d.v["basic_stats"].t = "obj"

\* ... and every value found is one a metric card takes
CardsValuesShown(d) ==
    /\ CardsKeysPresent(d)
    /\ MetricAccepts(d.v["readability"].v["hsk_level"])
    /\ MetricAccepts(d.v["scores"].v["narrativity"])
    /\ MetricAccepts(d.v["scores"].v["semantic_similarity"])
    /\ Has2(d, "basic_stats", "words") => MetricAccepts(d.v["basic_stats"].v["words"])

\* a key the code indexes directly is absent from an object reply
LacksIndexedKey(d) ==
    /\ d.t = "obj"
    /\ \/ ~Has(d, "readability") \/ (d.v["readability"].t = "obj" /\ ~Has2(d, "readability", "hsk_level"))
       \/ ~Has(d, "scores") \/ (d.v["scores"].t = "obj" /\ ~Has2(d, "scores", "narrativity"))
       \/ (d.v["scores"].t = "obj" /\ ~Has2(d, "scores", "semantic_similarity"))
       \/ ~Has(d, "basic_stats")
       \/ ~Has(d, "summary")
       \/ ~Has(d, "details")

Kinds(v) == [i \in 1..Len(v) |-> v[i].w]

FourCards == <<"columns", "metric", "metric", "metric", "metric">>

\* C10: a valid JSON reply that lacks a directly indexed key never takes
\* the parse fallback: the raw reply is not shown, the failure appears as
\* the connection-error message, and what was rendered before the failing
\* lookup stays; a missing basic_stats.words alone is shown as N/A.
C10_MissingKey ==
    (Rendered /\ ParsedReply.ok) =>
        /\ LacksIndexedKey(data) =>
              /\ exc.type = "KeyError"
              /\ Last(view).w = "error" /\ Last(view).msg = MSG_CONN_ERROR
              /\ Last(view).text = <<exc.text>>
              /\ \A i \in 1..Len(view) :
                    /\ view[i].msg # MSG_PARSE_FAILED
                    /\ view[i].text # response.text
        /\ CardsValuesShown(data) =>
              /\ SubSeq(Kinds(view), 1, 5) = FourCards
              /\ ~Has(data, "summary") => Kinds(view) = FourCards \o <<"error">>
              /\ (Has(data, "summary") /\ ~Has(data, "details")) =>
                    Kinds(view) = FourCards \o <<"success", "divider", "subheader", "error">>
              /\ ~Has2(data, "basic_stats", "words") =>
                    view[5].val.t = "str" /\ view[5].val.v = <<"N", "/", "A">>
        /\ (CardsValuesShown(data) /\ ~LacksIndexedKey(data)) =>
              exc = NoExc /\ Len(view) = 10

C10_Witness ==
    /\ Rendered
    /\ ParsedReply.ok
    /\ ~Has(ParsedReply.val, "details")
    /\ Has(ParsedReply.val, "summary")
    /\ Len(view) = 9
    /\ exc.type = "KeyError"

C10_WitnessWords ==
    /\ Rendered
    /\ ParsedReply.ok
    /\ CardsKeysPresent(ParsedReply.val)
    /\ ~Has2(ParsedReply.val, "basic_stats", "words")
    /\ exc = NoExc

====
